---------------------------- MODULE Spec2Model ----------------------------
(***************************************************************************)
(* Field Stock API (src/main.py, src/schemas.py): a FastAPI service over   *)
(* a MongoDB document store.  The state is the four collections (user,     *)
(* inventoryitem, technicianstock, workorder), the server clock, the       *)
(* register requests that are between their find_one and their insert,    *)
(* the bearer token each client holds (its latest), and the last response  *)
(* with the parameters its handler used.  Every store call (find_one,      *)
(* insert, update_one) is one atomic step of the store; a handler that     *)
(* makes one store write is one action, register (find_one, then insert)   *)
(* is two.                                                                 *)
(*                                                                         *)
(* Strings are TLA+ strings (sequences of characters), Optional[x] is a    *)
(* sequence of length <= 1, an ObjectId is the position of the document in *)
(* its collection (no document is ever deleted), a datetime is a number of *)
(* minutes on the server clock.                                            *)
(***************************************************************************)
EXTENDS Integers, Sequences, FiniteSets, TLC

VARIABLES user, inventoryitem, technicianstock, workorder,
          now, reg, tokens, last

store == <<user, inventoryitem, technicianstock, workorder>>
vars  == <<user, inventoryitem, technicianstock, workorder, now, reg, tokens, last>>

---------------------------------------------------------------------------
(* Bounds of the model *)
MaxUsers == 2
MaxTicks == 1

(* Program constants *)
ACCESS_TOKEN_EXPIRE_MINUTES == 60 * 24
DefaultMaxItems == 200
NameLimit == 200
SkuLimit == 64

(* One tick of the server clock, in minutes *)
TickMinutes == 1500

Procs     == {"w1", "w2"}
Emails    == {"a@x.nl", "b@x.nl"}
Passwords == {"pw1", "pw2"}
Roles     == {"technician", "office"}
Names     == {"Ann"}
Skus      == {"X", "Y"}
Quantities == {-5, 0, 3}
OrderIds  == {"o1", "o2"}
CompletedAts == {<<>>, <<"">>, <<"2024-05-01T10:00">>, <<"2024-05-02T11:00">>}
PayloadStatuses == {"completed", "failed"}

None == <<>>
Some(x) == <<x>>

Min(a, b) == IF a <= b THEN a ELSE b
Max(a, b) == IF a >= b THEN a ELSE b

---------------------------------------------------------------------------
(* The document store: pymongo calls, each atomic *)

\* A document matches a filter of equality conditions.
Matches(d, filter) ==
    \A f \in DOMAIN filter : f \in DOMAIN d /\ d[f] = filter[f]

\* The positions of the documents of coll that match.
Matching(coll, filter) == {i \in 1..Len(coll) : Matches(coll[i], filter)}

\* collection.find_one(filter): the first matching document in natural
\* order as Some(doc), or None.
FindOne(coll, filter) ==
    LET hits == Matching(coll, filter)
    IN  IF hits = {} THEN None
        ELSE Some(coll[CHOOSE i \in hits : \A j \in hits : i <= j])

\* {"$set": fields} applied to a document.
SetFields(d, fields) ==
    [f \in DOMAIN d \cup DOMAIN fields |->
        IF f \in DOMAIN fields THEN fields[f] ELSE d[f]]

\* The ObjectId the store gives the next inserted document of coll.
NewObjectId(coll) == Len(coll) + 1

\* collection.update_one(filter, {"$set": fields}, upsert=True): the first
\* matching document gets the fields; with no match a new document is
\* inserted, made of the filter's fields, the $set fields and an _id.
UpdateOneUpsert(coll, filter, fields) ==
    LET hits == Matching(coll, filter)
    IN  IF hits = {}
        THEN Append(coll, SetFields(SetFields([_id |-> NewObjectId(coll)], filter), fields))
        ELSE LET i == CHOOSE k \in hits : \A j \in hits : k <= j
             IN  [coll EXCEPT ![i] = SetFields(coll[i], fields)]

\* database.create_document(name, data): inserts data, returns the new id.
CreateDocument(coll, data) ==
    Append(coll, SetFields([_id |-> NewObjectId(coll)], data))

---------------------------------------------------------------------------
(* Credentials and tokens *)

\* pwd_context.hash: a salted one-way hash; only verify relates it to the
\* password.
GetPasswordHash(password) == [alg |-> "bcrypt", of |-> password]

VerifyPassword(plain, hashed) == hashed.alg = "bcrypt" /\ hashed.of = plain

\* A bearer token: who signed it, its "sub" claim and its "exp" claim.
\* sub.kind: "oid" (the str() of ObjectId sub.n), "text" (a string that is
\* no ObjectId), "number" (not a string), "none" (no sub claim).
SubOid(n) == [kind |-> "oid", n |-> n]
SubText   == [kind |-> "text", n |-> 0]
SubNumber == [kind |-> "number", n |-> 0]
SubNone   == [kind |-> "none", n |-> 0]

CreateAccessToken(sub, t) ==
    [signed |-> "JWT_SECRET", sub |-> sub, exp |-> t + ACCESS_TOKEN_EXPIRE_MINUTES]

\* jwt.decode(token, JWT_SECRET, algorithms=[HS256]) raises (a JWTError) on
\* a signature made with another key, on exp in the past and on a sub claim
\* that is not a string.
JwtDecodeFails(token, t) ==
    \/ token.signed # "JWT_SECRET"
    \/ token.exp < t
    \/ token.sub.kind = "number"

\* ObjectId(s) raises InvalidId unless s is 24 hex digits.
ObjectIdRaises(sub) == sub.kind # "oid"

UserById(coll, sub) == FindOne(coll, [_id |-> sub.n])

\* get_current_user: [status, user]; 500 is the unhandled InvalidId of
\* ObjectId(user_id), which is outside the try block.
GetCurrentUser(token, coll, t) ==
    IF JwtDecodeFails(token, t) THEN [status |-> 401, user |-> None]
    ELSE IF token.sub.kind = "none" THEN [status |-> 401, user |-> None]
    ELSE IF ObjectIdRaises(token.sub) THEN [status |-> 500, user |-> None]
    ELSE IF UserById(coll, token.sub) = None THEN [status |-> 401, user |-> None]
    ELSE [status |-> 200, user |-> UserById(coll, token.sub)]

\* Tokens a client can make without logging in, at time t.
CraftedTokens(t) ==
    { [signed |-> "other-key", sub |-> SubOid(1), exp |-> t + ACCESS_TOKEN_EXPIRE_MINUTES],
      [signed |-> "JWT_SECRET", sub |-> SubNone, exp |-> t + ACCESS_TOKEN_EXPIRE_MINUTES],
      [signed |-> "JWT_SECRET", sub |-> SubNumber, exp |-> t + ACCESS_TOKEN_EXPIRE_MINUTES],
      [signed |-> "JWT_SECRET", sub |-> SubText, exp |-> t + ACCESS_TOKEN_EXPIRE_MINUTES],
      [signed |-> "JWT_SECRET", sub |-> SubOid(0), exp |-> t + ACCESS_TOKEN_EXPIRE_MINUTES] }

Presentable == tokens \cup CraftedTokens(now)

ToPublicUser(doc) ==
    [id |-> doc._id, name |-> doc.name, email |-> doc.email, role |-> doc.role]

\* The id of the user a request was resolved to, 0 when it was not.
Uid(auth) == IF auth.user = None THEN 0 ELSE auth.user[1]._id

NoBody == <<>>

\* What a successful request of operation op wrote to: the stock row of a
\* user and sku, the work order of an order_id, the catalog through a url
\* and max_items.
KeyOf(op, uid, req) ==
    CASE op = "update_stock" -> <<uid, req.sku>>
      [] op = "optimoroute_webhook" -> <<req.order_id>>
      [] op = "inventory_scrape" -> <<req.url, req.max_items>>
      [] OTHER -> <<>>

\* The record of a response: the operation, the HTTP status, the id of the
\* user the token resolved to, the parameters the handler used, the body,
\* and whether the response before it was a success of the same operation
\* on the same key.
Response(op, status, uid, req, body) ==
    [op |-> op, status |-> status, uid |-> uid, req |-> req, body |-> body,
     repeat |-> /\ status = 200
                /\ last.status = 200
                /\ last.op = op
                /\ KeyOf(op, last.uid, last.req) = KeyOf(op, uid, req)]

---------------------------------------------------------------------------
(* Python's str operations, on TLA+ strings *)

Char(s, i) == SubSeq(s, i, i)

UpperCase == "ABCDEFGHIJKLMNOPQRSTUVWXYZ"
LowerCase == "abcdefghijklmnopqrstuvwxyz"

LowerChar(c) ==
    IF \E i \in 1..Len(UpperCase) : Char(UpperCase, i) = c
    THEN Char(LowerCase, CHOOSE i \in 1..Len(UpperCase) : Char(UpperCase, i) = c)
    ELSE c

\* s.lower()
RECURSIVE Lower(_)
Lower(s) == IF Len(s) = 0 THEN "" ELSE LowerChar(Char(s, 1)) \o Lower(SubSeq(s, 2, Len(s)))

\* The positions at which sub occurs in s.
Occurrences(s, sub) ==
    {i \in 1..(Len(s) - Len(sub) + 1) : SubSeq(s, i, i + Len(sub) - 1) = sub}

\* sub in s
Contains(s, sub) == Occurrences(s, sub) # {}

FirstOccurrence(s, sub) ==
    CHOOSE i \in Occurrences(s, sub) : \A j \in Occurrences(s, sub) : i <= j

\* s[:n], n >= 0
Truncate(s, n) == SubSeq(s, 1, Min(Len(s), n))

\* seq[:m] for any integer m: a negative m counts from the end.
SlicePrefix(seq, m) ==
    IF m >= 0 THEN SubSeq(seq, 1, Min(Len(seq), m))
    ELSE SubSeq(seq, 1, Max(0, Len(seq) + m))

IsSpace(c) == c = " "

\* s.strip()
RECURSIVE Strip(_)
Strip(s) ==
    IF Len(s) = 0 THEN ""
    ELSE IF IsSpace(Char(s, 1)) THEN Strip(SubSeq(s, 2, Len(s)))
    ELSE IF IsSpace(Char(s, Len(s))) THEN Strip(SubSeq(s, 1, Len(s) - 1))
    ELSE s

\* s.split(key)[1], given that key occurs in s: what lies between the first
\* occurrence of key and the next one (or the end).
SecondPart(s, key) ==
    LET rest == SubSeq(s, FirstOccurrence(s, key) + Len(key), Len(s))
    IN  IF Contains(rest, key) THEN SubSeq(rest, 1, FirstOccurrence(rest, key) - 1)
        ELSE rest

\* s.split(): Some(first whitespace-delimited word), or None when there is
\* none (s.split()[0] raises IndexError).
FirstWord(s) ==
    LET t == Strip(s)
        ends == {i \in 1..Len(t) : IsSpace(Char(t, i))}
    IN  IF Len(t) = 0 THEN None
        ELSE IF ends = {} THEN Some(t)
        ELSE Some(SubSeq(t, 1, (CHOOSE i \in ends : \A j \in ends : i <= j) - 1))

\* sep.join(strings)
RECURSIVE Join(_, _)
Join(strings, sep) ==
    IF Len(strings) = 0 THEN ""
    ELSE IF Len(strings) = 1 THEN strings[1]
    ELSE strings[1] \o sep \o Join(Tail(strings), sep)

---------------------------------------------------------------------------
(* The supplier scraper.  A page is the sequence of elements whose class   *)
(* contains "product", each with its data-sku, data-article and data-code  *)
(* attributes (None when absent) and its text nodes.                       *)

AttrOrder == <<"data-sku", "data-article", "data-code">>
SkuKeys == <<"SKU", "Artikel", "Art.", "Code">>

\* card.get_text(sep, strip=True): the stripped, non-empty text nodes joined.
GetText(card, sep) ==
    Join(SelectSeq([i \in 1..Len(card.strings) |-> Strip(card.strings[i])],
                   LAMBDA t : Len(t) > 0), sep)

\* The attribute loop: the value of the first attribute the card has.
AttrSku(card) ==
    LET present == {i \in 1..Len(AttrOrder) : card.attrs[i] # None}
    IN  IF present = {} THEN None
        ELSE card.attrs[CHOOSE i \in present : \A j \in present : i <= j]

\* The keyword loop from key k on: [raised, sku]; sku is None when no key
\* gave one.
RECURSIVE TextSku(_, _)
TextSku(txt, k) ==
    IF k > Len(SkuKeys) THEN [raised |-> FALSE, sku |-> None]
    ELSE IF Contains(Lower(txt), Lower(SkuKeys[k])) /\ Contains(txt, SkuKeys[k])
    THEN LET word == FirstWord(SecondPart(txt, SkuKeys[k]))
         IN  IF word = None THEN [raised |-> TRUE, sku |-> None]
             ELSE [raised |-> FALSE, sku |-> Some(Truncate(word[1], SkuLimit))]
    ELSE TextSku(txt, k + 1)

\* One card: [raised, item]; item is Some([sku, name]) when both are
\* non-empty.
ParseCard(card) ==
    LET name == Truncate(GetText(card, ""), NameLimit)
        attr == AttrSku(card)
        scan == IF attr # None /\ Len(attr[1]) > 0
                THEN [raised |-> FALSE, sku |-> attr]
                ELSE TextSku(GetText(card, " "), 1)
        sku  == IF scan.sku # None THEN scan.sku ELSE attr
    IN  [raised |-> scan.raised,
         item |-> IF ~scan.raised /\ Len(name) > 0 /\ sku # None /\ Len(sku[1]) > 0
                  THEN Some([sku |-> sku[1], name |-> name])
                  ELSE None]

\* parse_products_from_html: [raised, items].
RECURSIVE ParseProductsFromHtml(_)
ParseProductsFromHtml(page) ==
    IF Len(page) = 0 THEN [raised |-> FALSE, items |-> <<>>]
    ELSE LET first == ParseCard(page[1])
             rest  == ParseProductsFromHtml(Tail(page))
         IN  [raised |-> first.raised \/ rest.raised,
              items |-> first.item \o rest.items]

---------------------------------------------------------------------------
(* Sample pages *)

NoAttrs == <<None, None, None>>

RECURSIVE Repeat(_, _)
Repeat(s, n) == IF n = 0 THEN "" ELSE s \o Repeat(s, n - 1)

CardPump   == [attrs |-> <<Some("A1"), None, None>>, strings |-> <<" Pump ">>]
CardPipe   == [attrs |-> <<None, Some("A1"), None>>, strings |-> <<"Pipe">>]
CardValve  == [attrs |-> NoAttrs, strings |-> <<"Valve", "SKU B2 each">>]
CardTap    == [attrs |-> <<Some(""), None, None>>, strings |-> <<"Tap Code B2">>]
CardHose   == [attrs |-> NoAttrs, strings |-> <<"Hose sku D4">>]
CardBanner == [attrs |-> NoAttrs, strings |-> <<"Products">>]
CardBlank  == [attrs |-> <<None, None, Some("E5")>>, strings |-> <<"  ">>]
CardBoiler == [attrs |-> NoAttrs, strings |-> <<"Boiler Artikel">>]
CardLong   == [attrs |-> <<Some("A1"), None, None>>, strings |-> <<Repeat("0123456789", 21)>>]

\* The supplier's site: what requests.get(url) gives, an exception or a
\* status code and a page.  A url always serves the same content.
Urls == {"https://mip.nl/pumps", "https://mip.nl/odd", "https://mip.nl/broken",
         "https://mip.nl/gone", "https://down.nl/"}

Served(page) == [raised |-> FALSE, status_code |-> 200, page |-> page]

RequestsGet(url) ==
    CASE url = "https://mip.nl/pumps"  -> Served(<<CardPump, CardBanner, CardValve, CardPipe>>)
      [] url = "https://mip.nl/odd"    -> Served(<<CardHose, CardTap, CardBlank, CardLong>>)
      [] url = "https://mip.nl/broken" -> Served(<<CardValve, CardBoiler>>)
      [] url = "https://mip.nl/gone"   -> [raised |-> FALSE, status_code |-> 404, page |-> <<>>]
      [] OTHER -> [raised |-> TRUE, status_code |-> 0, page |-> <<>>]

\* r.text of every url, parsed: parse_products_from_html is a function of the
\* page alone.
ParsedAt == [url \in Urls |-> ParseProductsFromHtml(RequestsGet(url).page)]

MaxItemsInputs == {-1, 0, 1, DefaultMaxItems}

---------------------------------------------------------------------------
(* Initial state: empty collections, no request in flight *)

Idle == [pc |-> "idle", req |-> None]

Init ==
    /\ user = <<>>
    /\ inventoryitem = <<>>
    /\ technicianstock = <<>>
    /\ workorder = <<>>
    /\ now = 0
    /\ reg = [p \in Procs |-> Idle]
    /\ tokens = {}
    /\ last = [op |-> "none", status |-> 0, uid |-> 0, req |-> NoBody, body |-> NoBody,
               repeat |-> FALSE]

\* The server clock advances.
Tick ==
    /\ now < MaxTicks * TickMinutes
    /\ now' = now + TickMinutes
    /\ UNCHANGED <<store, reg, tokens, last>>

---------------------------------------------------------------------------
(* POST /auth/register *)

UserRequests ==
    [name : Names, email : Emails, role : Roles, password_hash : Passwords,
     phone : {None}, is_active : {TRUE}]

\* Mutant: the email check never finds the email.
EmailTakenNever(coll, email) == FALSE

\* user_collection().find_one({"email": user.email}) is truthy
EmailTaken(coll, email) == FindOne(coll, [email |-> email]) # None

InFlight == Cardinality({p \in Procs : reg[p].pc # "idle"})

\* The email check of register: 400 when the email is found, otherwise the
\* request goes on to its insert.
RegisterFind(p, u) ==
    /\ reg[p].pc = "idle"
    /\ EmailTaken(user, u.email) \/ Len(user) + InFlight < MaxUsers
    /\ IF EmailTaken(user, u.email)
       THEN /\ last' = Response("register", 400, 0, [email |-> u.email],
                                "Email already registered")
            /\ UNCHANGED reg
       ELSE /\ reg' = [reg EXCEPT ![p] = [pc |-> "insert", req |-> Some(u)]]
            /\ UNCHANGED last
    /\ UNCHANGED <<store, now, tokens>>

\* The rest of register: hash, create_document, find_one by _id, public view.
RegisterInsert(p) ==
    /\ reg[p].pc = "insert"
    /\ LET u    == reg[p].req[1]
           data == [u EXCEPT !.password_hash = GetPasswordHash(u.password_hash)]
           coll == CreateDocument(user, data)
           created == FindOne(coll, [_id |-> NewObjectId(user)])
       IN  /\ user' = coll
           /\ last' = Response("register", 200, 0, [email |-> u.email],
                               ToPublicUser(created[1]))
    /\ reg' = [reg EXCEPT ![p] = Idle]
    /\ UNCHANGED <<inventoryitem, technicianstock, workorder, now, tokens>>

---------------------------------------------------------------------------
(* POST /auth/login *)

AuthenticateUser(coll, email, password) ==
    LET found == FindOne(coll, [email |-> email])
    IN  IF found = None THEN None
        ELSE IF ~VerifyPassword(password, found[1].password_hash) THEN None
        ELSE found

Login(email, password) ==
    LET found == AuthenticateUser(user, email, password)
        token == CreateAccessToken(SubOid(found[1]._id), now)
        req   == [email |-> email, password |-> password]
    IN  /\ IF found = None
           THEN /\ last' = Response("login", 400, 0, req, None)
                /\ UNCHANGED tokens
           ELSE /\ tokens' = {t \in tokens : t.sub # token.sub} \cup {token}
                /\ last' = Response("login", 200, 0, req, Some(token))
        /\ UNCHANGED <<store, now, reg>>

---------------------------------------------------------------------------
(* The protected routes: each resolves the bearer token first *)

\* Mutant: the comparison of the role check is inverted.
WrongRoleInverted(doc, role) == doc.role = role

\* The role check of a route: the resolved user's role is not the one the
\* route is for.
WrongRole(doc, role) == doc.role # role

\* GET /auth/me
Me(token) ==
    LET auth == GetCurrentUser(token, user, now)
    IN  /\ last' = IF auth.status # 200
                   THEN Response("me", auth.status, 0, NoBody, NoBody)
                   ELSE Response("me", 200, Uid(auth), NoBody,
                                 ToPublicUser(auth.user[1]))
        /\ UNCHANGED <<store, now, reg, tokens>>

\* Mutant: the quantity is stored as supplied.
ClampQuantityNone(q) == q

\* max(0, int(update.quantity))
ClampQuantity(q) == Max(0, q)

\* Mutant: the filter reads a key the user document does not have, so every
\* technician writes under the same user_id.
StockFilterNoUser(user_id, sku) == [user_id |-> 0, sku |-> sku]

\* The filter of the upsert: {"user_id": str(current_user["_id"]), "sku": ...}
StockFilter(user_id, sku) == [user_id |-> user_id, sku |-> sku]

\* POST /stock/update
UpdateStock(token, sku, quantity) ==
    LET auth == GetCurrentUser(token, user, now)
        req  == [sku |-> sku, quantity |-> quantity]
    IN  /\ IF auth.status # 200
           THEN /\ last' = Response("update_stock", auth.status, 0, NoBody, NoBody)
                /\ UNCHANGED technicianstock
           ELSE IF WrongRole(auth.user[1], "technician")
           THEN /\ last' = Response("update_stock", 403, Uid(auth), NoBody, NoBody)
                /\ UNCHANGED technicianstock
           ELSE /\ technicianstock' =
                     UpdateOneUpsert(technicianstock,
                         StockFilter(Uid(auth), sku),
                         [quantity |-> ClampQuantity(quantity), updated_at |-> now])
                /\ last' = Response("update_stock", 200, Uid(auth), req, "ok")
        /\ UNCHANGED <<user, inventoryitem, workorder, now, reg, tokens>>

\* GET /stock/mine
MyStock(token) ==
    LET auth == GetCurrentUser(token, user, now)
        items == SelectSeq(technicianstock, LAMBDA d : d.user_id = Uid(auth))
    IN  /\ last' = IF auth.status # 200
                   THEN Response("my_stock", auth.status, 0, NoBody, NoBody)
                   ELSE IF WrongRole(auth.user[1], "technician")
                   THEN Response("my_stock", 403, Uid(auth), NoBody, NoBody)
                   ELSE Response("my_stock", 200, Uid(auth), NoBody,
                            [i \in 1..Len(items) |->
                                [id |-> items[i]._id, user_id |-> items[i].user_id,
                                 sku |-> items[i].sku, quantity |-> items[i].quantity,
                                 updated_at |-> items[i].updated_at]])
        /\ UNCHANGED <<store, now, reg, tokens>>

\* GET /stock/overview
StockOverview(token) ==
    LET auth == GetCurrentUser(token, user, now)
    IN  /\ last' = IF auth.status # 200
                   THEN Response("stock_overview", auth.status, 0, NoBody, NoBody)
                   ELSE IF WrongRole(auth.user[1], "office")
                   THEN Response("stock_overview", 403, Uid(auth), NoBody, NoBody)
                   ELSE Response("stock_overview", 200, Uid(auth), NoBody,
                            [i \in 1..Len(technicianstock) |->
                                [id |-> technicianstock[i]._id,
                                 user_id |-> technicianstock[i].user_id,
                                 sku |-> technicianstock[i].sku,
                                 quantity |-> technicianstock[i].quantity]])
        /\ UNCHANGED <<store, now, reg, tokens>>

---------------------------------------------------------------------------
(* POST /inventory/scrape *)

\* Mutant: the upsert is keyed by the item's name.
InventoryFilterByName(item) == [name |-> item.name]

\* The filter of the upsert: {"sku": item["sku"]}
InventoryFilter(item) == [sku |-> item.sku]

UpsertItem(coll, item, t) ==
    UpdateOneUpsert(coll, InventoryFilter(item),
        [sku |-> item.sku, name |-> item.name, supplier |-> "mijninstallatiepartner",
         active |-> TRUE, updated_at |-> t])

\* The items the loop visits: products[: params.max_items]
ItemsToUpsert(products, max_items) == SlicePrefix(products, max_items)

\* The upsert loop: [coll, upserted] after the items, in order.
RECURSIVE UpsertLoop(_, _, _)
UpsertLoop(coll, items, t) ==
    IF Len(items) = 0 THEN [coll |-> coll, upserted |-> 0]
    ELSE LET rest == UpsertLoop(UpsertItem(coll, items[1], t), Tail(items), t)
         IN  [coll |-> rest.coll, upserted |-> rest.upserted + 1]

InventoryScrape(token, url, max_items) ==
    LET auth == GetCurrentUser(token, user, now)
        req  == [url |-> url, max_items |-> max_items]
        fetch == RequestsGet(url)
        parsed == ParsedAt[url]
        done == UpsertLoop(inventoryitem, ItemsToUpsert(parsed.items, max_items), now)
    IN  /\ IF auth.status # 200
           THEN /\ last' = Response("inventory_scrape", auth.status, 0, NoBody, NoBody)
                /\ UNCHANGED inventoryitem
           ELSE IF WrongRole(auth.user[1], "office")
           THEN /\ last' = Response("inventory_scrape", 403, Uid(auth), NoBody, NoBody)
                /\ UNCHANGED inventoryitem
           ELSE IF ~fetch.raised /\ fetch.status_code # 200
           THEN /\ last' = Response("inventory_scrape", 400, Uid(auth), req,
                                    "Cannot fetch supplier page")
                /\ UNCHANGED inventoryitem
           ELSE IF fetch.raised \/ parsed.raised
           THEN /\ last' = Response("inventory_scrape", 400, Uid(auth), req,
                                    "Failed to parse supplier page")
                /\ UNCHANGED inventoryitem
           ELSE /\ inventoryitem' = done.coll
                /\ last' = Response("inventory_scrape", 200, Uid(auth), req,
                                    [status |-> "ok", upserted |-> done.upserted])
        /\ UNCHANGED <<user, technicianstock, workorder, now, reg, tokens>>

---------------------------------------------------------------------------
(* POST /optimoroute/webhook *)

\* datetime.isoformat()
IsoFormat(t) == "T+" \o ToString(t)

\* Mutant: the supplied completed_at is ignored.
CompletedAtAlwaysNow(completed_at, t) == IsoFormat(t)

\* payload.completed_at or datetime.now(timezone.utc).isoformat()
CompletedAtOrNow(completed_at, t) ==
    IF completed_at # None /\ Len(completed_at[1]) > 0 THEN completed_at[1]
    ELSE IsoFormat(t)

\* The filter of the upsert: {"order_id": payload.order_id}
WorkOrderFilter(order_id) == [order_id |-> order_id]

Payloads == [order_id : OrderIds, technician_email : {None},
             status : PayloadStatuses, completed_at : CompletedAts]

OptimorouteWebhook(payload) ==
    /\ workorder' =
          UpdateOneUpsert(workorder, WorkOrderFilter(payload.order_id),
              [status |-> "completed",
               completed_at |-> CompletedAtOrNow(payload.completed_at, now)])
    /\ last' = Response("optimoroute_webhook", 200, 0,
                        payload, "ok")
    /\ UNCHANGED <<user, inventoryitem, technicianstock, now, reg, tokens>>

---------------------------------------------------------------------------
(* The service: requests arrive in any order and interleave at store calls *)

Next ==
    \/ Tick
    \/ \E p \in Procs, u \in UserRequests : RegisterFind(p, u)
    \/ \E p \in Procs : RegisterInsert(p)
    \/ \E e \in Emails, pw \in Passwords : Login(e, pw)
    \/ \E token \in Presentable : Me(token)
    \/ \E token \in Presentable, sku \in Skus, q \in Quantities : UpdateStock(token, sku, q)
    \/ \E token \in Presentable : MyStock(token)
    \/ \E token \in Presentable : StockOverview(token)
    \/ \E token \in Presentable, url \in Urls, m \in MaxItemsInputs : InventoryScrape(token, url, m)
    \/ \E payload \in Payloads : OptimorouteWebhook(payload)

Spec == Init /\ [][Next]_vars

(* Registration and login alone, every input *)
NextAuth ==
    \/ Tick
    \/ \E p \in Procs, u \in UserRequests : RegisterFind(p, u)
    \/ \E p \in Procs : RegisterInsert(p)
    \/ \E e \in Emails, pw \in Passwords : Login(e, pw)
    \/ \E token \in Presentable : Me(token)

SpecAuth == Init /\ [][NextAuth]_vars

(* Register requests one after the other: none starts while another is *)
(* between its find_one and its insert.                                 *)
NextSeq ==
    \/ Tick
    \/ \E p \in Procs, u \in UserRequests : InFlight = 0 /\ RegisterFind(p, u)
    \/ \E p \in Procs : RegisterInsert(p)
    \/ \E e \in Emails, pw \in Passwords : Login(e, pw)
    \/ \E token \in Presentable : Me(token)

SpecSeq == Init /\ [][NextSeq]_vars

(* The staff of the route specifications: a technician and an office user *)
Technician ==
    [name |-> "Ann", email |-> "a@x.nl", role |-> "technician",
     password_hash |-> "pw1", phone |-> None, is_active |-> TRUE]

Office ==
    [name |-> "Ann", email |-> "b@x.nl", role |-> "office",
     password_hash |-> "pw1", phone |-> None, is_active |-> TRUE]

StaffSteps(staff) ==
    \/ \E p \in Procs, u \in staff : RegisterFind(p, u)
    \/ \E p \in Procs : RegisterInsert(p)
    \/ \E u \in staff : Login(u.email, u.password_hash)

(* The technicians' stock, called with the tokens that login issued *)
NextStock ==
    \/ Tick
    \/ StaffSteps({Technician, Office})
    \/ \E token \in tokens, sku \in Skus, q \in Quantities : UpdateStock(token, sku, q)
    \/ \E token \in tokens : MyStock(token)
    \/ \E token \in tokens : StockOverview(token)

SpecStock == Init /\ [][NextStock]_vars

(* The catalog sync, with office users *)
NextScrape ==
    \/ Tick
    \/ StaffSteps({Office})
    \/ \E token \in Presentable, url \in Urls, m \in MaxItemsInputs : InventoryScrape(token, url, m)

SpecScrape == Init /\ [][NextScrape]_vars

(* Every protected route, on one page and one stock update *)
NextRoutes ==
    \/ Tick
    \/ StaffSteps({Technician, Office})
    \/ \E token \in Presentable : Me(token)
    \/ \E token \in Presentable : UpdateStock(token, "X", 3)
    \/ \E token \in Presentable : MyStock(token)
    \/ \E token \in Presentable : StockOverview(token)
    \/ \E token \in Presentable : InventoryScrape(token, "https://mip.nl/pumps", 1)

SpecRoutes == Init /\ [][NextRoutes]_vars

(* The webhook alone *)
NextWebhook ==
    \/ Tick
    \/ \E payload \in Payloads : OptimorouteWebhook(payload)

SpecWebhook == Init /\ [][NextWebhook]_vars

---------------------------------------------------------------------------
(* Properties *)

DocsWithEmail(e) == {i \in 1..Len(user) : user[i].email = e}

StockRows(uid, sku) ==
    {i \in 1..Len(technicianstock) :
        technicianstock[i].user_id = uid /\ technicianstock[i].sku = sku}

OrderRows(order_id) == {i \in 1..Len(workorder) : workorder[i].order_id = order_id}

\* C1: register requests for the same email that run one after the other:
\* a request for an email that no user has goes on to insert and returns
\* the public view (id, name, email, role) of the one user with that email;
\* a request for an email a user has fails with 400 "Email already
\* registered" and inserts nothing; the collection never holds two users
\* with one email.
C1_Responses ==
    /\ \A e \in Emails : Cardinality(DocsWithEmail(e)) <= 1
    /\ last.op = "register" =>
          /\ Cardinality(DocsWithEmail(last.req.email)) = 1
          /\ last.status \in {200, 400}
          /\ last.status = 200 =>
                \E i \in DocsWithEmail(last.req.email) :
                    last.body = [id |-> user[i]._id, name |-> user[i].name,
                                 email |-> user[i].email, role |-> user[i].role]
          /\ last.status = 400 => last.body = "Email already registered"

C1_Steps ==
    /\ \A p \in Procs, u \in UserRequests :
          RegisterFind(p, u) =>
             IF DocsWithEmail(u.email) # {}
             THEN last'.op = "register" /\ last'.status = 400 /\ user' = user /\ reg' = reg
             ELSE reg'[p].pc = "insert" /\ reg'[p].req = Some(u)
    /\ \A p \in Procs :
          RegisterInsert(p) =>
             /\ Len(user') = Len(user) + 1
             /\ last'.op = "register" /\ last'.status = 200
             /\ last'.req.email = reg[p].req[1].email

C1_SequentialRegister == [](C1_Responses) /\ [][C1_Steps]_vars

\* C1 witness: a second register for an email was refused while exactly one
\* user has that email.
C1_Witness ==
    /\ last.op = "register" /\ last.status = 400
    /\ Cardinality(DocsWithEmail(last.req.email)) = 1

\* C2: the user collection never holds two documents with the same email,
\* whatever the interleaving of the register requests.
C2_EmailUnique == \A e \in Emails : Cardinality(DocsWithEmail(e)) <= 1

\* C3: every technicianstock document has quantity >= 0; an update_stock of
\* a technician succeeds (200, ok) for every quantity, and stores 0 for a
\* negative one and the quantity itself otherwise.
C3_QuantityNeverNegative ==
    /\ \A i \in 1..Len(technicianstock) : technicianstock[i].quantity >= 0
    /\ last.op = "update_stock" =>
          /\ (last.uid # 0 /\ user[last.uid].role = "technician") =>
                last.status = 200 /\ last.body = "ok"
          /\ last.status = 200 =>
                \A i \in StockRows(last.uid, last.req.sku) :
                    technicianstock[i].quantity =
                        IF last.req.quantity < 0 THEN 0 ELSE last.req.quantity

\* C3 witness: an update_stock with a negative quantity succeeded and the
\* row holds 0.
C3_Witness ==
    /\ last.op = "update_stock" /\ last.status = 200 /\ last.req.quantity < 0
    /\ \E i \in StockRows(last.uid, last.req.sku) : technicianstock[i].quantity = 0

\* C4: technicianstock holds at most one document per (user_id, sku); after
\* an update_stock the pair it wrote has exactly one document, with the
\* clamped quantity of that call; and a step changes no document other than
\* the one of the pair the update_stock of that step wrote, and removes none.
C4_Rows ==
    /\ \A i, j \in 1..Len(technicianstock) :
          (technicianstock[i].user_id = technicianstock[j].user_id
             /\ technicianstock[i].sku = technicianstock[j].sku) => i = j
    /\ (last.op = "update_stock" /\ last.status = 200) =>
          /\ Cardinality(StockRows(last.uid, last.req.sku)) = 1
          /\ \A i \in StockRows(last.uid, last.req.sku) :
                technicianstock[i].quantity = Max(0, last.req.quantity)

C4_Steps ==
    /\ Len(technicianstock') >= Len(technicianstock)
    /\ \A i \in 1..Len(technicianstock) :
          \/ technicianstock'[i] = technicianstock[i]
          \/ /\ last'.op = "update_stock" /\ last'.status = 200
             /\ technicianstock[i].user_id = last'.uid
             /\ technicianstock[i].sku = last'.req.sku
             /\ technicianstock'[i].user_id = technicianstock[i].user_id
             /\ technicianstock'[i].sku = technicianstock[i].sku
             /\ technicianstock'[i]._id = technicianstock[i]._id
             /\ Len(technicianstock') = Len(technicianstock)

C4_OneRowPerPair == [](C4_Rows) /\ [][C4_Steps]_vars

\* C4 witness: a second update_stock for the same user and sku, right after
\* the first, left one row for the pair, holding the second quantity.
C4_Witness ==
    /\ last.op = "update_stock" /\ last.status = 200 /\ last.repeat
    /\ last.req.quantity = 3
    /\ Cardinality(StockRows(last.uid, last.req.sku)) = 1
    /\ Len(technicianstock) = 2
    /\ \E i \in StockRows(last.uid, last.req.sku) : technicianstock[i].quantity = 3

\* The role a route is for.
RequiredRole(op) ==
    IF op \in {"my_stock", "update_stock"} THEN "technician" ELSE "office"

\* C5: when the token of a request to /stock/mine, /stock/update,
\* /stock/overview or /inventory/scrape resolves to a user, the response is
\* 403 exactly when the user's role is not the role the route is for; no
\* other request to them gets 403; and a 403 leaves every collection
\* unchanged.
C5_Responses ==
    last.op \in {"my_stock", "update_stock", "stock_overview", "inventory_scrape"} =>
        IF last.uid = 0 THEN last.status # 403
        ELSE last.status = 403 <=> user[last.uid].role # RequiredRole(last.op)

C5_Steps == (last' # last /\ last'.status = 403) => store' = store

C5_RoleEnforcement == [](C5_Responses) /\ [][C5_Steps]_vars

\* C5 witness: a technician was refused /stock/overview with 403.
C5_Witness ==
    /\ last.op = "stock_overview" /\ last.status = 403
    /\ last.uid # 0 /\ user[last.uid].role = "technician"

\* C6 as claimed: a webhook call for an order_id that has a record, with a
\* completed_at other than the record's, leaves that record holding the
\* call's completed_at, and adds no record.
C6_SuppliedValueStored ==
    [][\A payload \in Payloads :
         (OptimorouteWebhook(payload) /\ payload.completed_at # None) =>
            \A i \in OrderRows(payload.order_id) :
               workorder[i].completed_at # payload.completed_at[1] =>
                  /\ workorder'[i].completed_at = payload.completed_at[1]
                  /\ Len(workorder') = Len(workorder)]_vars

\* C6 amended: workorder holds at most one document per order_id, each with
\* status "completed"; a webhook call is possible for every payload and
\* returns 200 ok; it leaves exactly one document for its order_id, created
\* if there was none, whose completed_at is the call's completed_at when
\* that is a non-empty string and the server time when it is missing or
\* empty; no other document changes and none is removed.
C6_Rows ==
    /\ \A i, j \in 1..Len(workorder) :
          workorder[i].order_id = workorder[j].order_id => i = j
    /\ \A i \in 1..Len(workorder) : workorder[i].status = "completed"
    /\ \A payload \in Payloads : ENABLED OptimorouteWebhook(payload)

C6_Steps ==
    /\ Len(workorder') >= Len(workorder)
    /\ \A payload \in Payloads :
          OptimorouteWebhook(payload) =>
             /\ last'.status = 200 /\ last'.body = "ok"
             /\ Len(workorder') =
                   IF OrderRows(payload.order_id) = {} THEN Len(workorder) + 1
                   ELSE Len(workorder)
             /\ \E i \in 1..Len(workorder') :
                   /\ workorder'[i].order_id = payload.order_id
                   /\ workorder'[i].status = "completed"
                   /\ workorder'[i].completed_at =
                         IF payload.completed_at \in {<<>>, <<"">>}
                         THEN "T+" \o ToString(now)
                         ELSE payload.completed_at[1]
             /\ \A i \in 1..Len(workorder) :
                   workorder[i].order_id # payload.order_id =>
                      workorder'[i] = workorder[i]

C6_OneOrderPerId == [](C6_Rows) /\ [][C6_Steps]_vars

\* C6 witness: two webhook calls in a row for the order_id of the first
\* document, the second with a completed_at, left two documents, the first
\* holding that completed_at.
C6_Witness ==
    /\ last.op = "optimoroute_webhook" /\ last.repeat
    /\ Len(workorder) = 2
    /\ workorder[1].order_id = last.req.order_id
    /\ last.req.completed_at = <<"2024-05-02T11:00">>
    /\ workorder[1].completed_at = "2024-05-02T11:00"
    /\ workorder[2].completed_at = "2024-05-01T10:00"

\* A document without its updated_at.
SansUpdatedAt(d) ==
    [_id |-> d._id, sku |-> d.sku, name |-> d.name, supplier |-> d.supplier,
     active |-> d.active]

\* C7: inventoryitem never holds two documents with one sku; and a sync
\* that succeeds right after a successful sync of the same url and
\* max_items leaves the same documents, equal in every field but
\* updated_at, with one document for each sku it upserted.
C7_NoDuplicateSku ==
    \A i, j \in 1..Len(inventoryitem) :
        inventoryitem[i].sku = inventoryitem[j].sku => i = j

C7_SecondRun ==
    (last'.op = "inventory_scrape" /\ last'.repeat) =>
        LET upserted == SlicePrefix(ParsedAt[last'.req.url].items, last'.req.max_items)
        IN  /\ Len(inventoryitem') = Len(inventoryitem)
            /\ \A i \in 1..Len(inventoryitem) :
                  SansUpdatedAt(inventoryitem'[i]) = SansUpdatedAt(inventoryitem[i])
            /\ \A k \in 1..Len(upserted) :
                  Cardinality({i \in 1..Len(inventoryitem') :
                      inventoryitem'[i].sku = upserted[k].sku}) = 1

C7_ScrapeIdempotent == [](C7_NoDuplicateSku) /\ [][C7_SecondRun]_vars

\* C7 witness: a second sync of the same url and max_items succeeded, later
\* than the first, and the catalog holds the page's two skus, refreshed.
C7_Witness ==
    /\ last.op = "inventory_scrape" /\ last.status = 200 /\ last.repeat
    /\ last.req.url = "https://mip.nl/pumps" /\ last.body.upserted = 3
    /\ Len(inventoryitem) = 2
    /\ now > 0
    /\ \A i \in 1..Len(inventoryitem) : inventoryitem[i].updated_at = now

\* C8: a login whose password is not the password of a registered user
\* with that email fails with 400 and gives no token; a login with the
\* email and password of a registered user gives a token that, until its
\* expiry, resolves to a user with that email and password.
C8_LoginStep(email, password) ==
    LET registered == {i \in DocsWithEmail(email) : user[i].password_hash.of = password}
    IN  IF registered = {}
        THEN last'.status = 400 /\ last'.body = None /\ tokens' = tokens
        ELSE /\ last'.status = 200
             /\ last'.body # None
             /\ LET auth == GetCurrentUser(last'.body[1], user, last'.body[1].exp)
                IN  auth.status = 200 /\ Uid(auth) \in registered

C8_Login ==
    [][\A e \in Emails, pw \in Passwords : Login(e, pw) => C8_LoginStep(e, pw)]_vars

\* A token the auth middleware has to refuse: a signature of another key,
\* expired, no sub claim, a sub that is no user id, or the id of no user.
Refusable(token) ==
    \/ token.signed # "JWT_SECRET"
    \/ token.exp < now
    \/ token.sub.kind # "oid"
    \/ \A i \in 1..Len(user) : user[i]._id # token.sub.n

\* C9: a request to a protected route with a token that has to be refused
\* gets 401 and changes no collection.
C9_RouteSteps(token) ==
    LET Refused == last'.status = 401 /\ store' = store
    IN  Refusable(token) =>
          /\ Me(token) => Refused
          /\ MyStock(token) => Refused
          /\ StockOverview(token) => Refused
          /\ \A sku \in Skus, q \in Quantities : UpdateStock(token, sku, q) => Refused
          /\ \A url \in Urls, m \in MaxItemsInputs :
                InventoryScrape(token, url, m) => Refused

C9_Unauthorized == [][\A token \in Presentable : C9_RouteSteps(token)]_vars

\* C10: a successful sync returns upserted = min(number of extracted items,
\* max_items), and 0 when max_items <= 0.
C10_UpsertedCount ==
    (last.op = "inventory_scrape" /\ last.status = 200) =>
        last.body.upserted =
            IF last.req.max_items <= 0 THEN 0
            ELSE Min(Len(ParsedAt[last.req.url].items), last.req.max_items)

=============================================================================
